---- MODULE Spec2Model ----
(***************************************************************************)
(* Model of backend/app/services/ml_service.py (MalwareDetectionService): *)
(* feature extraction, heuristic / trained classification, zero-day       *)
(* detection and explanation generation.                                   *)
(*                                                                         *)
(* Numbers.  Python/numpy floats are modelled in fixed point: the integer  *)
(* x stands for the real x / One (One = 1000), so 0.3 is 300 and 7.0 is    *)
(* 7000.  NaN is the value NaN; every ordered comparison with NaN is       *)
(* false, as in IEEE 754.                                                  *)
(*                                                                         *)
(* Indices.  Python indexes from 0, TLA+ sequences from 1: At(v, k) reads  *)
(* the Python entry v[k] and Slice(v, a, b) is the Python slice v[a:b].    *)
(***************************************************************************)
EXTENDS Integers, Sequences, FiniteSets, TLC

\* ------------------------------------------------------------------ bounds
MaxLen == 2          \* longest enumerated file content, in bytes

\* ------------------------------------------------------- program constants
FEATURE_SIZE == 1000 \* settings.FEATURE_SIZE default
NumByteValues == 256 \* np.bincount(byte_array, minlength=256)
TopNgrams == 200     \* top 200 most common n-grams, per n
NumSectionFeatures == 4 \* has_pe_header, API ratio, string ratio, code ratio
HeaderWindow == 1000 \* byte_array[:1000]
TopBytes == 10       \* np.argsort(byte_freq)[-10:]

One == 10 * 100      \* fixed-point scale: the real 1.0
NaN == 0 - 1         \* float('nan'); no value of the program is negative
Inf == 1000 * 1000 * 1000

\* --------------------------------------------------------- Python helpers
At(v, k) == v[k + 1]

Min2(a, b) == IF a < b THEN a ELSE b

\* v[a:b] for 0 <= a; b is clipped to len(v) as Python does
Slice(v, a, b) ==
    LET hi == Min2(b, Len(v))
    IN  IF hi <= a THEN << >> ELSE [i \in 1..(hi - a) |-> v[a + i]]

\* x > t on floats: false when either side is NaN
Gt(x, t) == x # NaN /\ t # NaN /\ x > t

Range(s) == {s[i] : i \in 1..Len(s)}

RECURSIVE SumRange(_, _, _)
\* s[lo] + ... + s[hi], by halving
SumRange(s, lo, hi) ==
    IF lo > hi THEN 0
    ELSE IF lo = hi THEN s[lo]
    ELSE LET mid == (lo + hi) \div 2
         IN  SumRange(s, lo, mid) + SumRange(s, mid + 1, hi)

SumSeq(s) == SumRange(s, 1, Len(s))

\* ------------------------------------------------ fixed-point log2, entropy
RECURSIVE ILog2(_)
\* floor(log2(n)) for n >= 1
ILog2(n) == IF n < 2 THEN 0 ELSE 1 + ILog2(n \div 2)

RECURSIVE FracBits(_, _)
\* the first i binary digits of log2(x / 2^14), x / 2^14 in [1, 2), by repeated
\* squaring; the digits are returned as an integer below 2^i
FracBits(x, i) ==
    IF i = 0 THEN 0
    ELSE LET y == (x * x) \div (2 ^ 14)
         IN  IF y >= 2 ^ 15
             THEN 2 ^ (i - 1) + FracBits(y \div 2, i - 1)
             ELSE FracBits(y, i - 1)

\* np.log2 of the integer n >= 1, in fixed point (10 binary digits of fraction)
Log2Fixed(n) ==
    LET k == ILog2(n)
        x == (n * (2 ^ 14)) \div (2 ^ k)
    IN  k * One + (FracBits(x, 10) * One) \div (2 ^ 10)

\* np.bincount: occurrences of byte value k in the byte array
ByteCount(bytes, k) == Cardinality({i \in 1..Len(bytes) : bytes[i] = k})

\* calculate_entropy with the sum not divided by the length
calculate_entropy_Unnormalised(bytes) ==
    IF Len(bytes) = 0 THEN 0
    ELSE LET n == Len(bytes)
             vals == Range(bytes)
             cnt == [k \in vals |-> ByteCount(bytes, k)]
             counts == {cnt[k] : k \in vals}
             term(c) == Cardinality({k \in vals : cnt[k] = c})
                          * c * (Log2Fixed(n) - Log2Fixed(c))
             RECURSIVE Acc(_)
             Acc(S) == IF S = {} THEN 0
                       ELSE LET c == CHOOSE c \in S : TRUE
                            IN  term(c) + Acc(S \ {c})
         IN  Acc(counts)

\* _calculate_entropy: 0.0 for an empty array, else -sum(p * log2(p)) over the
\* non-zero buckets, p = count / len.  -p * log2(p) = count * (log2(len) -
\* log2(count)) / len; buckets holding the same count are summed together.
calculate_entropy(bytes) ==
    IF Len(bytes) = 0 THEN 0
    ELSE LET n == Len(bytes)
             vals == Range(bytes)
             cnt == [k \in vals |-> ByteCount(bytes, k)]
             counts == {cnt[k] : k \in vals}
             term(c) == Cardinality({k \in vals : cnt[k] = c})
                          * c * (Log2Fixed(n) - Log2Fixed(c))
             RECURSIVE Acc(_)
             Acc(S) == IF S = {} THEN 0
                       ELSE LET c == CHOOSE c \in S : TRUE
                            IN  term(c) + Acc(S \ {c})
         IN  Acc(counts) \div n

\* ------------------------------------------------------------ n-gram top-K
\* the n-byte windows byte_array[i:i+n], i in range(len - n + 1)
Ngrams(bytes, n) ==
    IF Len(bytes) < n THEN << >>
    ELSE [i \in 1..(Len(bytes) - n + 1) |-> SubSeq(bytes, i, i + n - 1)]

\* ngram_freq as a set of records: the distinct windows with their count and
\* the position of their first occurrence (the dict's insertion order)
NgramFreq(bytes, n) ==
    LET w == Ngrams(bytes, n)
    IN  { [gram  |-> g,
           freq  |-> Cardinality({i \in 1..Len(w) : w[i] = g}),
           first |-> CHOOSE i \in 1..Len(w) :
                        w[i] = g /\ \A j \in 1..(i - 1) : w[j] # g]
          : g \in Range(w) }

\* sorted(ngram_freq.items(), key=freq, reverse=True): descending count; the
\* sort is stable, so equal counts keep insertion order.  Each item is placed
\* at its rank: one more than the number of items that come before it.
SortedByFreq(items) ==
    LET Before(x, y) == \/ x.freq > y.freq
                        \/ (x.freq = y.freq /\ x.first < y.first)
        ranked == {<<1 + Cardinality({y \in items : Before(y, x)}), x>> : x \in items}
    IN  [i \in 1..Cardinality(items) |-> (CHOOSE p \in ranked : p[1] = i)[2]]

\* NgramFeatures with the sort left out: counts in the dict's insertion order
NgramFeatures_Unsorted(bytes, n) ==
    LET ngram_freq == NgramFreq(bytes, n)
        byFirst == {<<1 + Cardinality({y \in ngram_freq : y.first < x.first}), x>>
                       : x \in ngram_freq}
    IN  [i \in 1..TopNgrams |->
            IF i <= Cardinality(ngram_freq)
            THEN (CHOOSE p \in byFirst : p[1] = i)[2].freq * One ELSE 0]

\* the 200 entries written for one n: counts of the top-200 n-grams, padded
\* with zeros ("while len(ngram_features) < 200: append(0)")
NgramFeatures(bytes, n) ==
    LET ngram_freq == NgramFreq(bytes, n)
        sorted_ngrams == SubSeq(SortedByFreq(ngram_freq), 1,
                                Min2(TopNgrams, Cardinality(ngram_freq)))
    IN  [i \in 1..TopNgrams |->
            IF i <= Len(sorted_ngrams) THEN sorted_ngrams[i].freq * One ELSE 0]

\* ------------------------------------------------------- section features
pe_signatures == {"MZ", "PE\\x00\\x00"}

suspicious_apis ==
    {"CreateProcess", "VirtualAlloc", "WriteProcessMemory", "CreateRemoteThread",
     "LoadLibrary", "GetProcAddress", "WinExec", "ShellExecute"}

suspicious_strings ==
    {"http://", "https://", "ftp://", "\\x00", "cmd.exe", "powershell",
     "base64", "shellcode"}

\* `sig in byte_array` on a numpy uint8 array is (byte_array == sig).any(): the
\* bytes object sig is compared with each ELEMENT of the array, and an integer
\* element never equals a bytes object, so no element matches.  (It is not a
\* substring search.)
ElementEquals(b, sig) == FALSE

ArrayContains(values, sig) == \E b \in values : ElementEquals(b, sig)

\* sum(1 for b in byte_array if 32 <= b <= 126)
PrintableBytes(bytes) == Cardinality({i \in 1..Len(bytes) : 32 <= bytes[i] /\ bytes[i] <= 126})

\* _extract_section_features: [has_pe_header, api ratio, string ratio, code
\* ratio]; an empty array raises ZeroDivisionError at the code ratio, and the
\* handler then returns [0.0, 0.0, 0.0, 0.0].  ArrayContains is handed the
\* set of element values of the array it searches.
extract_section_features(bytes) ==
    LET header == Range(Slice(bytes, 0, HeaderWindow))
        whole == Range(bytes)
        has_pe_header == \E sig \in pe_signatures : ArrayContains(header, sig)
        api_count == Cardinality({api \in suspicious_apis : ArrayContains(whole, api)})
        string_count == Cardinality({t \in suspicious_strings : ArrayContains(whole, t)})
    IN  IF Len(bytes) = 0
        THEN <<0, 0, 0, 0>>
        ELSE << IF has_pe_header THEN One ELSE 0,
                (api_count * One) \div Cardinality(suspicious_apis),
                (string_count * One) \div Cardinality(suspicious_strings),
                One - (PrintableBytes(bytes) * One) \div Len(bytes) >>

\* ------------------------------------------------------- extract_features
\* byte_freq = np.bincount(byte_array, minlength=256) / len(byte_array); for an
\* empty array numpy divides 0 by 0 and every entry is NaN (a warning, no error)
ByteFreq(bytes) ==
    LET vals == Range(bytes)
    IN  [k \in 1..NumByteValues |->
            IF Len(bytes) = 0 THEN NaN
            ELSE IF (k - 1) \in vals
                 THEN (ByteCount(bytes, k - 1) * One) \div Len(bytes)
                 ELSE 0]

\* the feature list before it is fitted to FEATURE_SIZE: byte frequencies,
\* 2-gram and 3-gram top counts, entropy, section features
RawFeatures(bytes) ==
    ByteFreq(bytes) \o NgramFeatures(bytes, 2) \o NgramFeatures(bytes, 3)
        \o <<calculate_entropy(bytes)>> \o extract_section_features(bytes)

RawLen == NumByteValues + 2 * TopNgrams + 1 + NumSectionFeatures

\* FitToSize with the truncation branch lost: a longer list is returned whole
FitToSize_PadOnly(features, size) ==
    IF Len(features) < size
    THEN features \o [i \in 1..(size - Len(features)) |-> 0]
    ELSE features

\* truncate to the first size entries, or pad with trailing zeros
FitToSize(features, size) ==
    IF Len(features) > size THEN SubSeq(features, 1, size)
    ELSE IF Len(features) < size
         THEN features \o [i \in 1..(size - Len(features)) |-> 0]
         ELSE features

\* A file on disk: readable says whether open()/read() succeeds.
File(bytes) == [readable |-> TRUE, bytes |-> bytes]

Vanished == [readable |-> FALSE, bytes |-> << >>]

\* extract_features: the fitted vector; any exception in the body (the read
\* failing) is swallowed and np.random.rand(FEATURE_SIZE) is returned instead:
\* random is the vector the generator happens to produce
extract_features(file, size, random) ==
    IF file.readable THEN FitToSize(RawFeatures(file.bytes), size) ELSE random

\* ---------------------------------------------------------------- predict
Returned(label, confidence) ==
    [outcome |-> "returned", label |-> label, confidence |-> confidence]

Raised(error) == [outcome |-> error, label |-> "none", confidence |-> NaN]

\* suspicious_api_ratio * 0.4 on floats
TimesPointFour(x) == IF x = NaN THEN NaN ELSE (x * 4) \div 10

\* a + b on floats
Plus(a, b) == IF a = NaN \/ b = NaN THEN NaN ELSE a + b

\* the heuristic score of the three values _heuristic_predict reads
HeuristicScore(entropy, suspicious_api_ratio, code_ratio) ==
    LET s1 == IF Gt(entropy, 7 * One) THEN 300
              ELSE IF Gt(entropy, 6500) THEN 200 ELSE 0
        s2 == Plus(s1, TimesPointFour(suspicious_api_ratio))
    IN  IF Gt(code_ratio, 800) THEN Plus(s2, 300) ELSE s2

\* MinScore without the cap
MinScore_Uncapped(score) == score

\* Python min(score, 0.95): 0.95 only when 0.95 < score
MinScore(score) == IF Gt(score, 950) THEN 950 ELSE score

\* HeuristicDecision with both thresholds made inclusive (>= for >)
HeuristicDecision_Inclusive(score) ==
    LET confidence == MinScore(score)
    IN  IF score # NaN /\ score >= 500 THEN Returned("malicious", confidence)
        ELSE IF score # NaN /\ score >= 300 THEN Returned("suspicious", confidence)
        ELSE Returned("benign", IF confidence = NaN THEN NaN ELSE One - confidence)

\* label and confidence from the score
HeuristicDecision(score) ==
    LET confidence == MinScore(score)
    IN  IF Gt(score, 500) THEN Returned("malicious", confidence)
        ELSE IF Gt(score, 300) THEN Returned("suspicious", confidence)
        ELSE Returned("benign", IF confidence = NaN THEN NaN ELSE One - confidence)

\* the positions _heuristic_predict reads its three values from
HeuristicEntropyIndex == 256
HeuristicApiIndex == 257
HeuristicCodeIndex == 259

\* _heuristic_predict: features[259] raises IndexError on a shorter vector
heuristic_predict(features) ==
    IF Len(features) <= HeuristicCodeIndex THEN Raised("IndexError")
    ELSE HeuristicDecision(HeuristicScore(At(features, HeuristicEntropyIndex),
                                          At(features, HeuristicApiIndex),
                                          At(features, HeuristicCodeIndex)))

HasNaN(features) == \E i \in 1..Len(features) : features[i] = NaN

\* scaler.transform(features.reshape(1, -1)) succeeds only for a fitted scaler
\* given as many features as it was fitted on (NaN entries are let through)
ScalerAccepts(sc, features) == sc.fitted /\ Len(features) = sc.n_features

\* softmax + max over the two class scores of the loaded network: the winning
\* class and its probability; NaN inputs make both scores NaN, torch.max then
\* yields NaN at index 0
NetworkPredict(net, features) ==
    IF HasNaN(features) THEN Returned("benign", NaN)
    ELSE Returned(net.label, net.confidence)

\* predict: heuristic when untrained; when the scaler rejects the vector the
\* handler falls back to the heuristic as well
predict(svc, features) ==
    IF ~svc.is_trained THEN heuristic_predict(features)
    ELSE IF ~ScalerAccepts(svc.scaler, features) THEN heuristic_predict(features)
    ELSE NetworkPredict(svc.model, features)

\* detect_zero_day with the untrained default inverted
detect_zero_day_FlagsUntrained(svc, features) ==
    IF ~svc.is_trained THEN TRUE
    ELSE IF ~ScalerAccepts(svc.scaler, features) THEN FALSE
    ELSE IF ~svc.anomaly_detector.fitted \/ HasNaN(features) THEN FALSE
    ELSE svc.anomaly_detector.anomalous

\* detect_zero_day: False when untrained; an exception from the scaler or from
\* the isolation forest (unfitted, or NaN input) is swallowed and gives False
detect_zero_day(svc, features) ==
    IF ~svc.is_trained THEN FALSE
    ELSE IF ~ScalerAccepts(svc.scaler, features) THEN FALSE
    ELSE IF ~svc.anomaly_detector.fitted \/ HasNaN(features) THEN FALSE
    ELSE svc.anomaly_detector.anomalous

\* --------------------------------------------------- generate_explanation
\* the segment offsets generate_explanation slices the vector at
NgramOffset == 256
EntropyOffset == 656
SectionOffset == 657
SectionEnd == 661

\* sort key of an entry under np.argsort: NaN sorts after every number
SortKey(x) == IF x = NaN THEN Inf ELSE x

\* the indices 0..255 in ascending order
ByteIndices == [i \in 1..NumByteValues |-> i - 1]

Reverse(s) == [i \in 1..Len(s) |-> s[Len(s) + 1 - i]]

LastN(s, n) == SubSeq(s, Len(s) - n + 1, Len(s))

RECURSIVE TopIndices(_, _, _, _)
\* the last `need` entries of np.argsort(byte_freq), restricted to the keys in
\* `keys`: ascending by key.  np.argsort's default sort is not stable, so the
\* order among equal keys is the build's: ties = "index_asc" leaves equal keys
\* in ascending index order, ties = "index_desc" in descending index order.
TopIndices(byte_freq, keys, need, ties) ==
    IF need = 0 \/ keys = {} THEN << >>
    ELSE LET top == CHOOSE k \in keys : \A j \in keys : j <= k
             same == SelectSeq(ByteIndices, LAMBDA i : SortKey(At(byte_freq, i)) = top)
             group == IF ties = "index_asc" THEN same ELSE Reverse(same)
         IN  IF Len(group) >= need THEN LastN(group, need)
             ELSE TopIndices(byte_freq, keys \ {top}, need - Len(group), ties) \o group

\* top_byte_indices = np.argsort(byte_freq)[-10:], of which only the entries
\* above 1% are used: keys at or below 1% rank below every key above it, so
\* they are left out of the ranking
top_byte_indices(byte_freq, ties) ==
    LET keys == {SortKey(byte_freq[i]) : i \in 1..Len(byte_freq)}
    IN  TopIndices(byte_freq, {k \in keys : k > 10}, TopBytes, ties)

\* f"0x{idx:02x}": the two hexadecimal digits of idx
Hex2(idx) == <<idx \div 16, idx % 16>>

SuspiciousByte(idx, freq) ==
    [offset |-> idx, byte_sequence |-> Hex2(idx), confidence |-> freq,
     reason |-> <<"Byte", Hex2(idx), "appears", freq, "of the time">>]

\* the SuspiciousByte entries: the top indices whose frequency exceeds 1%
suspicious_bytes_of(byte_freq, ties) ==
    LET top == top_byte_indices(byte_freq, ties)
        kept == SelectSeq(top, LAMBDA idx : Gt(At(byte_freq, idx), 10))
    IN  [i \in 1..Len(kept) |-> SuspiciousByte(kept[i], At(byte_freq, kept[i]))]

FeatureImportance(name, importance) == [feature_name |-> name, importance |-> importance]

Optional(cond, entry) == IF cond THEN <<entry>> ELSE << >>

\* np.mean of a segment
Mean(seg) ==
    IF Len(seg) = 0 \/ HasNaN(seg) THEN NaN ELSE SumSeq(seg) \div Len(seg)

\* RiskRules without the rule on the number of suspicious bytes
RiskRules_NoByteRule(entropy, section_features, n_suspicious_bytes) ==
    Optional(Gt(entropy, 7000), "High entropy suggests packer/cryptor")
    \o Optional(Gt(section_features[2], 500), "Multiple suspicious API functions detected")
    \o Optional(Gt(section_features[3], 300), "Suspicious network-related strings found")

\* the risk_factors list before the default entry is considered
RiskRules(entropy, section_features, n_suspicious_bytes) ==
    Optional(Gt(entropy, 7000), "High entropy suggests packer/cryptor")
    \o Optional(Gt(section_features[2], 500), "Multiple suspicious API functions detected")
    \o Optional(Gt(section_features[3], 300), "Suspicious network-related strings found")
    \o Optional(n_suspicious_bytes > 5, "Unusual byte distribution pattern")

\* WithDefault with the default entry forgotten
WithDefault_Omitted(risk_factors) == risk_factors

\* "if not risk_factors: risk_factors.append(...)"
WithDefault(risk_factors) ==
    IF risk_factors = << >>
    THEN <<"No obvious malicious patterns detected">>
    ELSE risk_factors

NoExplanation ==
    [outcome |-> "none", feature_importance |-> << >>, suspicious_bytes |-> << >>,
     model_decision |-> << >>, confidence_breakdown |-> << >>, risk_factors |-> << >>]

\* generate_explanation with a model_decision that always names "malicious"
generate_explanation_FixedDecision(features, result, ties) ==
    IF Len(features) < SectionEnd
    THEN [NoExplanation EXCEPT !.outcome = "IndexError"]
    ELSE [NoExplanation EXCEPT
            !.outcome = "returned",
            !.model_decision = <<"Classified as", "malicious", "based on feature analysis">>,
            !.risk_factors = <<"No obvious malicious patterns detected">>]

\* generate_explanation with the feature_importance rules chained by elif:
\* only the first rule that matches contributes
generate_explanation_EarlyExit(features, result, ties) ==
    IF Len(features) < SectionEnd
    THEN [NoExplanation EXCEPT !.outcome = "IndexError"]
    ELSE
    LET entropy == At(features, EntropyOffset)
        section_features == Slice(features, SectionOffset, SectionEnd)
    IN  [NoExplanation EXCEPT
            !.outcome = "returned",
            !.feature_importance =
                IF Gt(entropy, 7000) THEN <<FeatureImportance("High Entropy", 900)>>
                ELSE IF Gt(section_features[2], 300)
                THEN <<FeatureImportance("Suspicious API Calls", section_features[2])>>
                ELSE IF Gt(section_features[3], 200)
                THEN <<FeatureImportance("Suspicious Strings", section_features[3])>>
                ELSE IF Gt(section_features[4], 850)
                THEN <<FeatureImportance("High Code Ratio", 700)>>
                ELSE << >>,
            !.model_decision = <<"Classified as", result, "based on feature analysis">>,
            !.risk_factors = <<"No obvious malicious patterns detected">>]

\* generate_explanation: features[656] and section_features[1..3] raise
\* IndexError on a vector shorter than 661
generate_explanation(features, result, ties) ==
    IF Len(features) < SectionEnd
    THEN [NoExplanation EXCEPT !.outcome = "IndexError"]
    ELSE
    LET byte_freq == Slice(features, 0, NumByteValues)
        ngram_features == Slice(features, NgramOffset, EntropyOffset)
        entropy == At(features, EntropyOffset)
        section_features == Slice(features, SectionOffset, SectionEnd)
        suspicious_bytes == suspicious_bytes_of(byte_freq, ties)
    IN  [outcome |-> "returned",
         feature_importance |->
            Optional(Gt(entropy, 7000), FeatureImportance("High Entropy", 900))
            \o Optional(Gt(section_features[2], 300),
                        FeatureImportance("Suspicious API Calls", section_features[2]))
            \o Optional(Gt(section_features[3], 200),
                        FeatureImportance("Suspicious Strings", section_features[3]))
            \o Optional(Gt(section_features[4], 850),
                        FeatureImportance("High Code Ratio", 700)),
         suspicious_bytes |-> SubSeq(suspicious_bytes, 1, Min2(10, Len(suspicious_bytes))),
         model_decision |-> <<"Classified as", result, "based on feature analysis">>,
         confidence_breakdown |->
            <<Mean(byte_freq), Mean(ngram_features), entropy, Mean(section_features)>>,
         risk_factors |-> WithDefault(RiskRules(entropy, section_features,
                                                Len(suspicious_bytes)))]

\* ------------------------------------------------------------ _load_model
UnfittedScaler == [fitted |-> FALSE, n_features |-> 0]

UnfittedForest == [fitted |-> FALSE, anomalous |-> FALSE]

\* MalwareDetector(input_size) as constructed: no trained parameters
FreshNetwork == [loaded |-> FALSE, label |-> "benign", confidence |-> 500]

\* A trained network is represented by the answer it gives: the winning class
\* of its 2-way softmax and that class's probability.
TrainedNetwork(label, confidence) ==
    [loaded |-> TRUE, label |-> label, confidence |-> confidence]

FittedScaler(n) == [fitted |-> TRUE, n_features |-> n]

FittedForest(anomalous) == [fitted |-> TRUE, anomalous |-> anomalous]

\* what is found at settings.MODEL_PATH
NoCheckpoint ==
    [exists |-> FALSE, loadable |-> FALSE, model |-> FreshNetwork,
     has_anomaly_detector |-> FALSE, anomaly_detector |-> UnfittedForest,
     has_scaler |-> FALSE, scaler |-> UnfittedScaler]

\* torch.load or load_state_dict raises
CorruptCheckpoint == [NoCheckpoint EXCEPT !.exists = TRUE]

Checkpoint(net, has_ad, ad, has_sc, sc) ==
    [exists |-> TRUE, loadable |-> TRUE, model |-> net,
     has_anomaly_detector |-> has_ad, anomaly_detector |-> ad,
     has_scaler |-> has_sc, scaler |-> sc]

Checkpoints ==
    { NoCheckpoint, CorruptCheckpoint,
      Checkpoint(TrainedNetwork("benign", 900), TRUE, FittedForest(FALSE),
                 TRUE, FittedScaler(FEATURE_SIZE)),
      Checkpoint(TrainedNetwork("malicious", 600), TRUE, FittedForest(TRUE),
                 TRUE, FittedScaler(FEATURE_SIZE)),
      Checkpoint(TrainedNetwork("malicious", 600), TRUE, FittedForest(TRUE),
                 FALSE, UnfittedScaler),
      Checkpoint(TrainedNetwork("malicious", 600), FALSE, UnfittedForest,
                 TRUE, FittedScaler(FEATURE_SIZE)) }

\* the service as __init__ leaves it before _load_model runs
FreshService ==
    [model |-> FreshNetwork, anomaly_detector |-> UnfittedForest,
     scaler |-> UnfittedScaler, model_loaded |-> FALSE, is_trained |-> FALSE]

\* load_model with the failure handler setting is_trained
load_model_TrainedOnFailure(svc, checkpoint) ==
    IF ~checkpoint.exists THEN svc
    ELSE [svc EXCEPT !.is_trained = TRUE]

\* _load_model: nothing to do without a file; a load that raises only resets
\* model_loaded; otherwise the parts present in the checkpoint are taken and
\* both flags are set
load_model(svc, checkpoint) ==
    IF ~checkpoint.exists THEN svc
    ELSE IF ~checkpoint.loadable THEN [svc EXCEPT !.model_loaded = FALSE]
    ELSE [model |-> checkpoint.model,
          anomaly_detector |-> IF checkpoint.has_anomaly_detector
                               THEN checkpoint.anomaly_detector
                               ELSE svc.anomaly_detector,
          scaler |-> IF checkpoint.has_scaler THEN checkpoint.scaler ELSE svc.scaler,
          model_loaded |-> TRUE,
          is_trained |-> TRUE]

\* -------------------------------------------------------------- scan_file
NoCall ==
    [op |-> "none", file |-> Vanished, features |-> << >>, outcome |-> "none",
     label |-> "none", confidence |-> NaN, is_zero_day |-> FALSE,
     explanation |-> NoExplanation]

\* scan_file: extract_features, predict, detect_zero_day, generate_explanation
\* in sequence; an exception of predict or generate_explanation propagates
scan_file(svc, file, size, random, ties) ==
    LET features == extract_features(file, size, random)
        pr == predict(svc, features)
        is_zero_day == detect_zero_day(svc, features)
        explanation == generate_explanation(features, pr.label, ties)
        failed == [NoCall EXCEPT !.op = "scan_file", !.file = file,
                                 !.features = features]
    IN  IF pr.outcome # "returned" THEN [failed EXCEPT !.outcome = pr.outcome]
        ELSE IF explanation.outcome # "returned"
             THEN [failed EXCEPT !.outcome = explanation.outcome]
        ELSE [op |-> "scan_file", file |-> file, features |-> features,
              outcome |-> "returned", label |-> pr.label,
              confidence |-> pr.confidence, is_zero_day |-> is_zero_day,
              explanation |-> explanation]

\* ------------------------------------------------------------------ inputs
Alphabet == {65, 200}    \* one printable byte value ('A'), one that is not

Contents == UNION {[1..n -> Alphabet] : n \in 0..MaxLen}

\* Scenario A: 1000 bytes, each 0x41
ScenarioA == [i \in 1..1000 |-> 65]

\* the files of a request: every content up to MaxLen bytes, and a file whose
\* read fails
Files == {File(b) : b \in Contents} \cup {Vanished}

\* k byte values 0..k-1 in turn, r rounds of them: a uniform histogram
Ramp(k, r) == [i \in 1..(k * r) |-> (i - 1) % k]

\* m bytes of value 0 followed by the byte values 1..k-1 once each
Skewed(k, m) == [i \in 1..(m + k - 1) |-> IF i <= m THEN 0 ELSE i - m]

\* byte arrays handed to _calculate_entropy: constant, two-valued, uniform over
\* up to all 256 byte values, and one-sided
EntropyInputs ==
    {Ramp(k, r) : k \in {1, 2, 3}, r \in {1, 2, 5}}
    \cup {Ramp(k, 1) : k \in {16, 255, 256}}
    \cup {Skewed(2, 999), Skewed(16, 100), Skewed(256, 3)}

\* settings.FEATURE_SIZE is configurable: a size that truncates the 661 raw
\* features, one that fits them exactly, and the default, which pads them
FeatureSizes == {RawLen - 1, RawLen, FEATURE_SIZE}

\* np.random.rand draws from numpy's global generator, which every call in the
\* process shares: a draw returns what the generator's state determines and
\* advances that state.  Two states stand for the generator's state space.
RngStates == {0, 1}

NextRng(state) == 1 - state

\* np.random.rand(size) in the given generator state: entries in [0, 1)
RandomDraw(size, state) == [i \in 1..size |-> IF state = 0 THEN 0 ELSE 900]

\* the vectors np.random.rand(size) can produce
RandomVectors(size) == {RandomDraw(size, state) : state \in RngStates}

Labels == {"benign", "suspicious", "malicious"}

\* Vectors handed directly to predict, detect_zero_day and generate_explanation.
\* h gives the entries at offsets 256, 257 and 259; e gives the entropy entry
\* (656) and the suspicious-API, suspicious-string and code ratios (658..660);
\* the first nb byte-frequency entries are 0.08, every other entry is 0
Probe(len, h, e, nb) ==
    [i \in 1..len |->
        IF i <= nb THEN 80
        ELSE IF i < 257 \/ i > 661 THEN 0
        ELSE CASE i = 257 -> h[1]
               [] i = 258 -> h[2]
               [] i = 260 -> h[3]
               [] i = 657 -> e[1]
               [] i = 659 -> e[2]
               [] i = 660 -> e[3]
               [] i = 661 -> e[4]
               [] OTHER -> 0]

ProbeHeads ==
    { <<0, 0, 0>>, <<7500, 250, 0>>, <<7500, 500, 800>>, <<7000, 250, 0>>,
      <<6500, 0, 900>>, <<7500, 1000, 900>> }

ProbeTails == { <<0, 0, 0, 0>>, <<7000, 400, 250, 850>>, <<7500, 1000, 1000, 900>> }

\* the probes: every head with every tail, quiet tails over a flat byte
\* histogram and loud tails over twelve byte values at 8% each; a quiet vector
\* with those twelve byte values; and a vector one entry short
Probes(size) ==
    {Probe(size, h, e, IF e[1] = 0 THEN 0 ELSE 12) : h \in ProbeHeads, e \in ProbeTails}
    \cup {Probe(size, <<0, 0, 0>>, <<0, 0, 0, 0>>, 12)}
    \cup {Probe(size - 1, <<0, 0, 0>>, <<0, 0, 0, 0>>, 0)}

\* ------------------------------------------------------------------- state
VARIABLES
    feature_size,      \* settings.FEATURE_SIZE
    model,             \* detector.model
    anomaly_detector,  \* detector.anomaly_detector
    scaler,            \* detector.scaler
    model_loaded,      \* detector.model_loaded
    is_trained,        \* detector.is_trained
    argsort_ties,      \* how this build's np.argsort orders equal keys
    model_file,        \* what _load_model found at settings.MODEL_PATH
    rng,               \* state of numpy's global random generator
    rng0,              \* that state when the callers' requests arrived
    calls,             \* per caller: the call it made and what came back
    scans,             \* db.scans: the scan record the requests address
    upload,            \* whether the record's uploaded file is on disk
    scan_requests,     \* per request: the start_scan / delete_scan handler
    users,             \* db.users
    signup_requests    \* per request: the signup handler

ml_vars == <<feature_size, model, anomaly_detector, scaler, model_loaded,
             is_trained, argsort_ties, model_file, rng, rng0, calls>>

api_vars == <<scans, upload, scan_requests, users, signup_requests>>

vars == <<feature_size, model, anomaly_detector, scaler, model_loaded,
          is_trained, argsort_ties, model_file, rng, rng0, calls,
          scans, upload, scan_requests, users, signup_requests>>

\* Two callers share the detector.  Caller 1 uses every method of the service;
\* caller 2 is a further scan request made while caller 1 holds a scan result.
Callers == {1, 2}

\* the global detector object
detector ==
    [model |-> model, anomaly_detector |-> anomaly_detector, scaler |-> scaler,
     model_loaded |-> model_loaded, is_trained |-> is_trained]

\* detector = MalwareDetectionService(): the state after construction
\* ---------------------------------------------------------- the HTTP handlers
\* how many requests are made
MaxRequests == 3

\* the handlers in flight; each is one request
Requests == 1..MaxRequests

\* the owner of the scan record and another authenticated user
Owner == "alice"

UserIds == {Owner, "bob"}

\* find_one found no document
Absent == [status |-> "absent", user_id |-> "None", detection_result |-> "None"]

\* the document upload_file inserts
UploadedScan ==
    [status |-> "uploaded", user_id |-> Owner, detection_result |-> "None"]

\* a handler that has not been called, and the response of one still running
NoResponse == [code |-> 0, status |-> "None", detection_result |-> "None"]

NoRequest == [op |-> "none", pc |-> "none", user |-> "None", response |-> NoResponse]

\* raise HTTPException(status_code = code)
HTTPException(code) == [NoResponse EXCEPT !.code = code]

\* update_one({"_id": _id}, {"$set": ...}): changes the document if there is one
update_one(doc, status, detection_result) ==
    IF doc = Absent THEN Absent
    ELSE [doc EXCEPT !.status = status, !.detection_result = detection_result]

\* signup requests name one of these
Usernames == {"ann", "ben"}

Emails == {"ann@mail", "ben@mail"}

NoSignup == [pc |-> "none", username |-> "None", email |-> "None", code |-> 0]

Init ==
    /\ scans = UploadedScan
    /\ upload = TRUE
    /\ scan_requests = [r \in Requests |-> NoRequest]
    /\ users = {}
    /\ signup_requests = [r \in Requests |-> NoSignup]
    /\ feature_size \in FeatureSizes
    /\ argsort_ties \in {"index_asc", "index_desc"}
    /\ \E checkpoint \in Checkpoints :
         LET svc == load_model(FreshService, checkpoint)
         IN  /\ model_file = checkpoint
             /\ model = svc.model
             /\ anomaly_detector = svc.anomaly_detector
             /\ scaler = svc.scaler
             /\ model_loaded = svc.model_loaded
             /\ is_trained = svc.is_trained
    /\ rng \in RngStates
    /\ rng0 = rng
    /\ calls = [c \in Callers |-> NoCall]

\* 202 bytes, all different: 201 distinct 2-byte and 200 distinct 3-byte windows
ManyNgrams == Ramp(TopNgrams + 2, 1)

\* the 2-byte window seen first occurs once, the one seen second twice
MixedNgrams == <<200, 65, 65, 65>>

\* a file that starts with the bytes "MZ" and a file that is the name WinExec
HeaderFile == <<77, 90, 65>>

ApiNameFile == <<87, 105, 110, 69, 120, 101, 99>>

\* files handed to extract_features alone
NgramFiles ==
    {File(ManyNgrams), File(MixedNgrams), File(<<65>>), File(<<65, 200>>),
     File(HeaderFile), File(ApiNameFile)}

\* the files caller c scans: caller 1 also scans the Scenario A file
FilesOf(c) == IF c = 1 THEN Files \cup {File(ScenarioA)} ELSE Files

MayCall(c) ==
    /\ calls[c] = NoCall
    /\ c = 2 => calls[1].op = "scan_file"

\* detector.scan_file(file_path)
ScanFile(c) ==
    /\ MayCall(c)
    /\ \E file \in FilesOf(c) :
         /\ calls' = [calls EXCEPT ![c] =
                        scan_file(detector, file, feature_size,
                                  RandomDraw(feature_size, rng), argsort_ties)]
         /\ rng' = IF file.readable THEN rng ELSE NextRng(rng)
    /\ UNCHANGED <<feature_size, model, anomaly_detector, scaler, model_loaded,
                   is_trained, argsort_ties, model_file, rng0>>
    /\ UNCHANGED api_vars

\* detector.predict(features)
Predict(c) ==
    /\ MayCall(c)
    /\ \E features \in Probes(feature_size) :
         LET pr == predict(detector, features)
         IN  calls' = [calls EXCEPT ![c] =
                         [NoCall EXCEPT !.op = "predict", !.features = features,
                             !.outcome = pr.outcome, !.label = pr.label,
                             !.confidence = pr.confidence]]
    /\ UNCHANGED <<feature_size, model, anomaly_detector, scaler, model_loaded,
                   is_trained, argsort_ties, model_file, rng, rng0>>
    /\ UNCHANGED api_vars

\* detector.detect_zero_day(features)
DetectZeroDay(c) ==
    /\ MayCall(c)
    /\ \E features \in Probes(feature_size) :
         calls' = [calls EXCEPT ![c] =
                     [NoCall EXCEPT !.op = "detect_zero_day", !.features = features,
                         !.outcome = "returned",
                         !.is_zero_day = detect_zero_day(detector, features)]]
    /\ UNCHANGED <<feature_size, model, anomaly_detector, scaler, model_loaded,
                   is_trained, argsort_ties, model_file, rng, rng0>>
    /\ UNCHANGED api_vars

\* detector.generate_explanation(features, result)
GenerateExplanation(c) ==
    /\ MayCall(c)
    /\ \E features \in Probes(feature_size), result \in Labels :
         LET ex == generate_explanation(features, result, argsort_ties)
         IN  calls' = [calls EXCEPT ![c] =
                         [NoCall EXCEPT !.op = "generate_explanation",
                             !.features = features, !.outcome = ex.outcome,
                             !.label = result, !.explanation = ex]]
    /\ UNCHANGED <<feature_size, model, anomaly_detector, scaler, model_loaded,
                   is_trained, argsort_ties, model_file, rng, rng0>>
    /\ UNCHANGED api_vars

\* detector.extract_features(file_path)
ExtractFeatures(c) ==
    /\ MayCall(c)
    /\ \E file \in NgramFiles :
         calls' = [calls EXCEPT ![c] =
                     [NoCall EXCEPT !.op = "extract_features", !.file = file,
                         !.features = extract_features(file, feature_size,
                                                       RandomDraw(feature_size, rng)),
                         !.outcome = "returned"]]
    /\ UNCHANGED <<feature_size, model, anomaly_detector, scaler, model_loaded,
                   is_trained, argsort_ties, model_file, rng, rng0>>
    /\ UNCHANGED api_vars

\* detector._calculate_entropy(byte_array)
CalculateEntropy(c) ==
    /\ MayCall(c)
    /\ \E bytes \in EntropyInputs :
         calls' = [calls EXCEPT ![c] =
                     [NoCall EXCEPT !.op = "calculate_entropy", !.file = File(bytes),
                         !.features = <<calculate_entropy(bytes)>>,
                         !.outcome = "returned"]]
    /\ UNCHANGED <<feature_size, model, anomaly_detector, scaler, model_loaded,
                   is_trained, argsort_ties, model_file, rng, rng0>>
    /\ UNCHANGED api_vars

\* both callers are done with their results; the next requests arrive
Return ==
    /\ calls[1] # NoCall
    /\ calls' = [c \in Callers |-> NoCall]
    /\ rng0' = rng
    /\ UNCHANGED <<feature_size, model, anomaly_detector, scaler, model_loaded,
                   is_trained, argsort_ties, model_file, rng>>
    /\ UNCHANGED api_vars

Next ==
    \/ \E c \in Callers : ScanFile(c)
    \/ Predict(1)
    \/ DetectZeroDay(1)
    \/ GenerateExplanation(1)
    \/ ExtractFeatures(1)
    \/ CalculateEntropy(1)
    \/ Return

Spec == Init /\ [][Next]_vars

\* ------------------------------------------------- start_scan and delete_scan
\* start_scan up to its first await: find_one, 404 and 403
StartScanFind(r, user) ==
    /\ scan_requests[r] = NoRequest
    /\ scan_requests' = [scan_requests EXCEPT ![r] =
            IF scans = Absent
            THEN [op |-> "start_scan", pc |-> "done", user |-> user,
                  response |-> HTTPException(404)]
            ELSE IF scans.user_id # user
            THEN [op |-> "start_scan", pc |-> "done", user |-> user,
                  response |-> HTTPException(403)]
            ELSE [op |-> "start_scan", pc |-> "set_scanning", user |-> user,
                  response |-> NoResponse]]
    /\ UNCHANGED <<scans, upload, users, signup_requests>>
    /\ UNCHANGED ml_vars

\* start_scan: update_one status = "scanning"
StartScanSetScanning(r) ==
    /\ scan_requests[r].op = "start_scan"
    /\ scan_requests[r].pc = "set_scanning"
    /\ scans' = update_one(scans, "scanning", scans.detection_result)
    /\ scan_requests' = [scan_requests EXCEPT ![r].pc = "set_completed"]
    /\ UNCHANGED <<upload, users, signup_requests>>
    /\ UNCHANGED ml_vars

\* start_scan: the mock scan, the file hash, update_one status = "completed";
\* get_file_hash opens the file when it exists, and open may raise
StartScanSetCompleted(r) ==
    /\ scan_requests[r].op = "start_scan"
    /\ scan_requests[r].pc = "set_completed"
    /\ \E hash_raises \in (IF upload THEN BOOLEAN ELSE {FALSE}) :
         IF hash_raises
         THEN /\ scan_requests' = [scan_requests EXCEPT ![r].pc = "set_failed"]
              /\ UNCHANGED scans
         ELSE /\ scans' = update_one(scans, "completed", "benign")
              /\ scan_requests' = [scan_requests EXCEPT ![r].pc = "find_updated"]
    /\ UNCHANGED <<upload, users, signup_requests>>
    /\ UNCHANGED ml_vars

\* start_scan: find_one again and answer from the document read;
\* updated["_id"] raises TypeError when the document is gone
StartScanFindUpdated(r) ==
    /\ scan_requests[r].op = "start_scan"
    /\ scan_requests[r].pc = "find_updated"
    /\ scan_requests' = [scan_requests EXCEPT ![r] =
            IF scans = Absent
            THEN [@ EXCEPT !.pc = "set_failed"]
            ELSE [@ EXCEPT !.pc = "done",
                           !.response = [code |-> 200, status |-> scans.status,
                                         detection_result |-> scans.detection_result]]]
    /\ UNCHANGED <<scans, upload, users, signup_requests>>
    /\ UNCHANGED ml_vars

\* start_scan, except branch: update_one status = "failed", then 500
StartScanSetFailed(r) ==
    /\ scan_requests[r].op = "start_scan"
    /\ scan_requests[r].pc = "set_failed"
    /\ scans' = update_one(scans, "failed", scans.detection_result)
    /\ scan_requests' = [scan_requests EXCEPT ![r].pc = "done",
                                              ![r].response = HTTPException(500)]
    /\ UNCHANGED <<upload, users, signup_requests>>
    /\ UNCHANGED ml_vars

\* delete_scan up to its second await: find_one, 404 and 403, os.remove
\* (a failed os.remove is only logged)
DeleteScanFind(r, user) ==
    /\ scan_requests[r] = NoRequest
    /\ scan_requests' = [scan_requests EXCEPT ![r] =
            IF scans = Absent
            THEN [op |-> "delete_scan", pc |-> "done", user |-> user,
                  response |-> HTTPException(404)]
            ELSE IF scans.user_id # user
            THEN [op |-> "delete_scan", pc |-> "done", user |-> user,
                  response |-> HTTPException(403)]
            ELSE [op |-> "delete_scan", pc |-> "delete_one", user |-> user,
                  response |-> NoResponse]]
    /\ \E removed \in BOOLEAN :
         upload' = IF scans # Absent /\ scans.user_id = user /\ removed
                   THEN FALSE ELSE upload
    /\ UNCHANGED <<scans, users, signup_requests>>
    /\ UNCHANGED ml_vars

\* delete_scan: delete_one, then 204
DeleteScanDeleteOne(r) ==
    /\ scan_requests[r].op = "delete_scan"
    /\ scan_requests[r].pc = "delete_one"
    /\ scans' = Absent
    /\ scan_requests' = [scan_requests EXCEPT ![r].pc = "done",
                                              ![r].response = HTTPException(204)]
    /\ UNCHANGED <<upload, users, signup_requests>>
    /\ UNCHANGED ml_vars

\* the handlers start with the record uploaded, no user registered and the
\* detector as it is without a checkpoint file
ApiInit ==
    /\ Init
    /\ feature_size = FEATURE_SIZE
    /\ argsort_ties = "index_asc"
    /\ model_file = NoCheckpoint
    /\ rng = 0

ScanNext ==
    \/ \E r \in Requests, user \in UserIds : StartScanFind(r, user)
    \/ \E r \in Requests : StartScanSetScanning(r)
    \/ \E r \in Requests : StartScanSetCompleted(r)
    \/ \E r \in Requests : StartScanFindUpdated(r)
    \/ \E r \in Requests : StartScanSetFailed(r)
    \/ \E r \in Requests, user \in UserIds : DeleteScanFind(r, user)
    \/ \E r \in Requests : DeleteScanDeleteOne(r)

ScanSpec == ApiInit /\ [][ScanNext]_vars

\* --------------------------------------------------------------------- signup
\* signup up to its second await: find_one by username, 400
SignupFindUsername(r, username, email) ==
    /\ signup_requests[r] = NoSignup
    /\ signup_requests' = [signup_requests EXCEPT ![r] =
            IF \E u \in users : u.username = username
            THEN [pc |-> "done", username |-> username, email |-> email, code |-> 400]
            ELSE [pc |-> "find_email", username |-> username, email |-> email,
                  code |-> 0]]
    /\ UNCHANGED <<scans, upload, scan_requests, users>>
    /\ UNCHANGED ml_vars

\* signup: find_one by email, 400
SignupFindEmail(r) ==
    /\ signup_requests[r].pc = "find_email"
    /\ signup_requests' = [signup_requests EXCEPT ![r] =
            IF \E u \in users : u.email = signup_requests[r].email
            THEN [@ EXCEPT !.pc = "done", !.code = 400]
            ELSE [@ EXCEPT !.pc = "insert_one"]]
    /\ UNCHANGED <<scans, upload, scan_requests, users>>
    /\ UNCHANGED ml_vars

\* signup: insert_one, then 201 with the token
SignupInsertOne(r) ==
    /\ signup_requests[r].pc = "insert_one"
    /\ users' = users \cup {[id |-> r, username |-> signup_requests[r].username,
                              email |-> signup_requests[r].email]}
    /\ signup_requests' = [signup_requests EXCEPT ![r].pc = "done", ![r].code = 201]
    /\ UNCHANGED <<scans, upload, scan_requests>>
    /\ UNCHANGED ml_vars

SignupNext ==
    \/ \E r \in Requests, username \in Usernames, email \in Emails :
          SignupFindUsername(r, username, email)
    \/ \E r \in Requests : SignupFindEmail(r)
    \/ \E r \in Requests : SignupInsertOne(r)

SignupSpec == ApiInit /\ [][SignupNext]_vars

\* ------------------------------------------------------------------ claims
Scans == {c \in Callers : calls[c].op = "scan_file"}

\* the service runs with the default FEATURE_SIZE
DefaultSize == feature_size = FEATURE_SIZE

\* a scan whose file was read and held at least one byte
ReadNonEmpty(c) ==
    /\ calls[c].op = "scan_file"
    /\ calls[c].file.readable
    /\ calls[c].file.bytes # << >>

\* C1: the vector extract_features returns for a non-empty input has exactly
\* FEATURE_SIZE entries, whatever FEATURE_SIZE is configured: it is the raw
\* feature list cut to its first FEATURE_SIZE entries when that list is longer,
\* and the raw list followed by zeros when it is shorter.
C1_VectorLength ==
    \A c \in Callers :
        ReadNonEmpty(c) =>
            LET raw == RawFeatures(calls[c].file.bytes)
                v == calls[c].features
            IN  /\ Len(v) = feature_size
                /\ \A i \in 1..Min2(feature_size, Len(raw)) : v[i] = raw[i]
                /\ \A i \in (Len(raw) + 1)..feature_size : v[i] = 0

\* a non-empty file was scanned under a FEATURE_SIZE below the raw length
C1_Witness ==
    \E c \in Callers : ReadNonEmpty(c) /\ feature_size < RawLen

\* C2: extract_features on a zero-length buffer ends in EmptyInputError and
\* produces no vector; scan_file on an empty file yields no label, confidence
\* or explanation.  (Stated for the default FEATURE_SIZE.)
C2_EmptyInputRejected ==
    \A c \in Scans :
        (DefaultSize /\ calls[c].file.readable /\ calls[c].file.bytes = << >>) =>
            /\ calls[c].outcome = "EmptyInputError"
            /\ calls[c].features = << >>
            /\ calls[c].label = "none"
            /\ calls[c].confidence = NaN
            /\ calls[c].explanation = NoExplanation

\* C3: when reading the file fails, the failure reaches the caller: no
\* substitute vector is produced and scan_file returns no classification.
\* (Stated for the default FEATURE_SIZE.)
C3_ReadFailurePropagates ==
    \A c \in Scans :
        (DefaultSize /\ ~calls[c].file.readable) =>
            /\ calls[c].outcome \notin {"returned", "none"}
            /\ calls[c].features = << >>
            /\ calls[c].label = "none"

\* C4: extract_features is deterministic: two calls on the same file return
\* the same vector.  (Stated for the default FEATURE_SIZE.)
C4_Deterministic ==
    \A c1, c2 \in Scans :
        (DefaultSize /\ calls[c1].file = calls[c2].file)
        => calls[c1].features = calls[c2].features

\* calls that went through the classifier and came back
Classified ==
    {c \in Callers : calls[c].op \in {"scan_file", "predict"}
                     /\ calls[c].outcome = "returned"}

\* the vector has every entry of the layout extract_features writes
FullLayout(v) == Len(v) >= SectionEnd

\* the entropy, suspicious-API ratio and code ratio entries of that layout
NamedEntries(v) ==
    <<At(v, EntropyOffset), At(v, SectionOffset + 1), At(v, SectionOffset + 3)>>

\* C5: without a trained model, label and confidence depend only on the
\* entropy, suspicious-API ratio and code ratio entries of the vector as
\* extract_features lays it out (offsets 656, 658, 660): two vectors that agree
\* on them are classified alike.  (Stated for the default FEATURE_SIZE.)
C5_DependsOnNamedEntries ==
    (DefaultSize /\ ~is_trained) =>
        \A c1, c2 \in Classified :
            ( /\ FullLayout(calls[c1].features)
              /\ FullLayout(calls[c2].features)
              /\ NamedEntries(calls[c1].features) = NamedEntries(calls[c2].features) )
            => /\ calls[c1].label = calls[c2].label
               /\ calls[c1].confidence = calls[c2].confidence

\* every byte of the sequence is the same printable ASCII value
RepeatedPrintable(bytes) ==
    /\ bytes # << >>
    /\ \A i \in 1..Len(bytes) : bytes[i] = bytes[1]
    /\ 32 <= bytes[1] /\ bytes[1] <= 126

\* C6: without a trained model, a file of one printable byte value repeated
\* (Scenario A: 1000 bytes of 0x41) scans to entropy 0, code ratio 0, label
\* benign and confidence 1.0 (score 0).  (Stated for the default FEATURE_SIZE.)
C6_ScenarioA ==
    (DefaultSize /\ ~is_trained) =>
        \A c \in Scans :
            ( /\ calls[c].outcome = "returned"
              /\ calls[c].file.readable
              /\ RepeatedPrintable(calls[c].file.bytes) )
            => /\ At(calls[c].features, EntropyOffset) = 0
               /\ At(calls[c].features, SectionOffset + 3) = 0
               /\ calls[c].label = "benign"
               /\ calls[c].confidence = One

\* the score the heuristic rule assigns to three values
RuleScore(entropy, api_ratio, code_ratio) ==
    (IF entropy > 7000 THEN 300 ELSE IF entropy > 6500 THEN 200 ELSE 0)
    + (4 * api_ratio) \div 10
    + (IF code_ratio > 800 THEN 300 ELSE 0)

C8_ShapeMismatchRejected ==
    \A c \in Callers :
        ( /\ DefaultSize
          /\ calls[c].op = "predict"
          /\ Len(calls[c].features) # feature_size ) =>
            /\ calls[c].outcome = "ShapeMismatchError"
            /\ calls[c].label = "none"

\* C9: while is_trained is false, detect_zero_day returns false for every
\* vector, and every scan_file result has is_zero_day = false.
C9_NoZeroDayUntrained ==
    ~is_trained =>
        \A c \in Callers :
            calls[c].op \in {"detect_zero_day", "scan_file"} => ~calls[c].is_zero_day

\* untrained, detect_zero_day has answered for a vector with non-zero entries,
\* or a scan has returned
C9_Witness ==
    /\ ~is_trained
    /\ \E c \in Callers :
         /\ calls[c].outcome = "returned"
         /\ \/ calls[c].op = "scan_file"
            \/ calls[c].op = "detect_zero_day" /\ At(calls[c].features, EntropyOffset) > 0

\* the calls that produced an explanation
Explained ==
    {c \in Callers : calls[c].op \in {"generate_explanation", "scan_file"}
                     /\ calls[c].outcome = "returned"}

\* C10: the risk_factors list generate_explanation returns is never empty,
\* for every vector and every label.
C10_RiskFactorsNonEmpty ==
    \A c \in Explained : Len(calls[c].explanation.risk_factors) >= 1

\* generate_explanation returned for a vector on which no risk rule fires
C10_Witness ==
    \E c \in Explained :
        LET v == calls[c].features
        IN  /\ calls[c].op = "generate_explanation"
            /\ RiskRules(At(v, EntropyOffset), Slice(v, SectionOffset, SectionEnd),
                         Len(suspicious_bytes_of(Slice(v, 0, NumByteValues), argsort_ties)))
                 = << >>
            /\ calls[c].explanation.risk_factors # << >>

\* the entropy entry and the section entries generate_explanation reads
EntropyOf(v) == At(v, EntropyOffset)

SectionOf(v) == Slice(v, SectionOffset, SectionEnd)

\* the three risk rules on entropy, API ratio and string ratio are all silent
ThreeRulesSilent(v) ==
    /\ EntropyOf(v) # NaN /\ EntropyOf(v) <= 7000
    /\ SectionOf(v)[2] # NaN /\ SectionOf(v)[2] <= 500
    /\ SectionOf(v)[3] # NaN /\ SectionOf(v)[3] <= 300

\* how many of the ten top-ranked byte values have a frequency above 1%: NaN
\* entries rank first and are not above 1%
NumAboveOnePercent(v) ==
    LET byte_freq == Slice(v, 0, NumByteValues)
        nans == Cardinality({i \in 1..Len(byte_freq) : byte_freq[i] = NaN})
        above == Cardinality({i \in 1..Len(byte_freq) : Gt(byte_freq[i], 10)})
    IN  Min2(above, IF nans >= TopBytes THEN 0 ELSE TopBytes - nans)

DefaultRiskFactors == <<"No obvious malicious patterns detected">>

\* C11 as stated: when none of the three risk rules fires (entropy <= 7.0,
\* API ratio <= 0.5, string ratio <= 0.3), risk_factors is exactly the default
\* entry whatever the byte-frequency segment holds, and the default entry
\* appears only then.
C11_DefaultIffThreeSilent ==
    \A c \in Explained :
        LET v == calls[c].features
            rf == calls[c].explanation.risk_factors
        IN  /\ ThreeRulesSilent(v) => rf = DefaultRiskFactors
            /\ (\E i \in 1..Len(rf) : rf[i] = DefaultRiskFactors[1])
                   => (ThreeRulesSilent(v) /\ rf = DefaultRiskFactors)

\* C11 amended: there are four risk rules, the fourth firing when more than
\* five suspicious bytes were found.  risk_factors is exactly the default entry
\* iff none of the four fires; when only the fourth fires it is exactly
\* "Unusual byte distribution pattern".
C11_DefaultIffFourSilent ==
    \A c \in Explained :
        LET v == calls[c].features
            rf == calls[c].explanation.risk_factors
            silent == ThreeRulesSilent(v) /\ NumAboveOnePercent(v) <= 5
        IN  (EntropyOf(v) # NaN /\ ~HasNaN(SectionOf(v))) =>
            /\ silent => rf = DefaultRiskFactors
            /\ (\E i \in 1..Len(rf) : rf[i] = DefaultRiskFactors[1]) => silent
            /\ (ThreeRulesSilent(v) /\ NumAboveOnePercent(v) > 5)
                  => rf = <<"Unusual byte distribution pattern">>

\* an explanation was returned for a vector on which only the fourth rule fires
C11_Witness ==
    \E c \in Explained :
        /\ ThreeRulesSilent(calls[c].features)
        /\ NumAboveOnePercent(calls[c].features) > 5
        /\ calls[c].explanation.risk_factors = <<"Unusual byte distribution pattern">>

\* C12: every result scan_file returns, trained or not and also when the
\* extraction failed, has a confidence in [0, 1].
C12_ConfidenceInUnitInterval ==
    \A c \in Scans :
        calls[c].outcome = "returned" =>
            /\ calls[c].confidence # NaN
            /\ 0 <= calls[c].confidence
            /\ calls[c].confidence <= One

\* C13: while a trained model is loaded (is_trained), every label predict
\* returns is benign or malicious, never suspicious, and the confidence is the
\* probability the network gives its winning class, hence at least 0.5.
C13_TrainedLabelsTwoWay ==
    is_trained =>
        \A c \in Classified :
            /\ calls[c].label \in {"benign", "malicious"}
            /\ calls[c].label = model.label
            /\ calls[c].confidence = model.confidence
            /\ calls[c].confidence >= One \div 2

\* the artifact was absent, or loading it raised
LoadFailed == ~model_file.exists \/ ~model_file.loadable

C15_AllOrNothing ==
    is_trained =>
        /\ model.loaded
        /\ anomaly_detector.fitted
        /\ scaler.fitted

\* the service as construction left it
StartupService == load_model(FreshService, model_file)

\* what a scan_file call hands back to its caller
ResultOf(call) ==
    [outcome |-> call.outcome, label |-> call.label, confidence |-> call.confidence,
     is_zero_day |-> call.is_zero_day, explanation |-> call.explanation]

\* what caller c's scan returns when it is the only call made on the service
\* as the requests found it
AloneResult(c) ==
    ResultOf(scan_file(StartupService, calls[c].file, feature_size,
                       RandomDraw(feature_size, rng0), argsort_ties))

\* C16: after startup no operation modifies the model state (network, scaler,
\* anomaly detector, is_trained, model_loaded), and every scan_file call made
\* while other calls run on the shared service returns what it returns when it
\* runs alone.
C16_ReadOnlyAndIsolated ==
    /\ detector = StartupService
    /\ \A c \in Scans : ResultOf(calls[c]) = AloneResult(c)

\* byte value k ranks among the ten highest frequencies of byte_freq when
\* equal frequencies are ranked by ascending byte value
RanksInTopTen(byte_freq, k) ==
    Cardinality({j \in 0..(NumByteValues - 1) :
                    \/ At(byte_freq, j) > At(byte_freq, k)
                    \/ (At(byte_freq, j) = At(byte_freq, k) /\ j < k)}) < TopBytes

\* C17: suspicious_bytes has at most 10 entries and holds exactly the byte
\* values whose frequency is above 1% and ranks among the 10 highest, equal
\* frequencies ranked by ascending byte value: of more than ten qualifying
\* values tied at the cut-off, the lower byte values are kept.
C17_TopTenAscendingTies ==
    \A c \in Explained :
        LET byte_freq == Slice(calls[c].features, 0, NumByteValues)
            sb == calls[c].explanation.suspicious_bytes
        IN  ~HasNaN(byte_freq) =>
            /\ Len(sb) <= 10
            /\ {sb[i].offset : i \in 1..Len(sb)}
                 = {k \in 0..(NumByteValues - 1) :
                       At(byte_freq, k) > 10 /\ RanksInTopTen(byte_freq, k)}

\* the entropy values computed for non-empty inputs, each with its input: by
\* scans of readable files (the entry extract_features writes at offset 656)
\* and by direct calls of _calculate_entropy
EntropiesComputed ==
    {<<calls[c].file.bytes, EntropyOf(calls[c].features)>> :
        c \in {d \in Callers : ReadNonEmpty(d) /\ FullLayout(calls[d].features)}}
    \cup {<<calls[c].file.bytes, calls[c].features[1]>> :
             c \in {d \in Callers : calls[d].op = "calculate_entropy"}}

ConstantBytes(bytes) == \A i \in 1..Len(bytes) : bytes[i] = bytes[1]

\* C18: for every non-empty input the entropy computed lies in [0, 8], and it
\* is 0 if and only if all bytes of the input have the same value.
C18_EntropyRange ==
    \A e \in EntropiesComputed :
        /\ e[2] # NaN
        /\ 0 <= e[2] /\ e[2] <= 8 * One
        /\ e[2] = 0 <=> ConstantBytes(e[1])

\* the entropy of an input holding all 256 byte values equally often was
\* computed and is 8.0
C18_Witness ==
    \E e \in EntropiesComputed :
        /\ Cardinality(Range(e[1])) = NumByteValues
        /\ e[2] = 8 * One

ImportanceNames ==
    <<"High Entropy", "Suspicious API Calls", "Suspicious Strings", "High Code Ratio">>

\* the condition of the rule with the k-th name, on vector v
ImportanceRule(v, k) ==
    CASE k = 1 -> EntropyOf(v) > 7000
      [] k = 2 -> SectionOf(v)[2] > 300
      [] k = 3 -> SectionOf(v)[3] > 200
      [] k = 4 -> SectionOf(v)[4] > 850

\* the importance the rule with the k-th name records, on vector v
ImportanceValue(v, k) ==
    CASE k = 1 -> 900
      [] k = 2 -> SectionOf(v)[2]
      [] k = 3 -> SectionOf(v)[3]
      [] k = 4 -> 700

\* C20: the four feature_importance rules are evaluated independently:
\* "High Entropy" (0.9) is present iff entropy > 7.0, "Suspicious API Calls"
\* (the ratio) iff API ratio > 0.3, "Suspicious Strings" (the ratio) iff string
\* ratio > 0.2, "High Code Ratio" (0.7) iff code ratio > 0.85; each at most
\* once, in that order; and for the vectors extract_features produces every
\* importance is in [0, 1].
C20_ImportanceRules ==
    \A c \in Explained :
        LET v == calls[c].features
            fi == calls[c].explanation.feature_importance
            pos(i) == CHOOSE k \in 1..4 : ImportanceNames[k] = fi[i].feature_name
        IN  (EntropyOf(v) # NaN /\ ~HasNaN(SectionOf(v))) =>
            /\ \A i \in 1..Len(fi) : fi[i].feature_name \in Range(ImportanceNames)
            /\ \A k \in 1..4 :
                  (\E i \in 1..Len(fi) : fi[i].feature_name = ImportanceNames[k])
                  <=> ImportanceRule(v, k)
            /\ \A i, j \in 1..Len(fi) : i < j => pos(i) < pos(j)
            /\ \A i \in 1..Len(fi) : fi[i].importance = ImportanceValue(v, pos(i))
            /\ calls[c].op = "scan_file" =>
                  \A i \in 1..Len(fi) : 0 <= fi[i].importance /\ fi[i].importance <= One

\* an explanation lists the two middle rules and neither of the outer ones
C20_Witness ==
    \E c \in Explained :
        /\ calls[c].op = "generate_explanation"
        /\ calls[c].explanation.feature_importance
             = <<FeatureImportance("Suspicious API Calls", 400),
                 FeatureImportance("Suspicious Strings", 250)>>

\* the n-gram segment of a vector, n = 2 or 3
NgramSegment(v, n) ==
    Slice(v, NgramOffset + (n - 2) * TopNgrams, NgramOffset + (n - 1) * TopNgrams)

\* the n-byte windows of a byte sequence, one per start position
Windows(bytes, n) ==
    [i \in 1..(IF Len(bytes) < n THEN 0 ELSE Len(bytes) - n + 1) |->
        [j \in 1..n |-> bytes[i + j - 1]]]

\* the calls that extracted a vector from a readable file, the vector holding
\* both n-gram segments whole
NgramScans ==
    {c \in Callers : /\ calls[c].op \in {"scan_file", "extract_features"}
                     /\ calls[c].file.readable
                     /\ Len(calls[c].features) >= EntropyOffset}

HeaderMarkerBytes ==
    { <<77, 90>>,
      <<80, 69, 0, 0>> }

\* the eight suspicious API names as byte sequences
ApiNameBytes ==
    { <<67, 114, 101, 97, 116, 101, 80, 114, 111, 99, 101, 115, 115>>,
      <<86, 105, 114, 116, 117, 97, 108, 65, 108, 108, 111, 99>>,
      <<87, 114, 105, 116, 101, 80, 114, 111, 99, 101, 115, 115, 77, 101, 109, 111, 114, 121>>,
      <<67, 114, 101, 97, 116, 101, 82, 101, 109, 111, 116, 101, 84, 104, 114, 101, 97, 100>>,
      <<76, 111, 97, 100, 76, 105, 98, 114, 97, 114, 121>>,
      <<71, 101, 116, 80, 114, 111, 99, 65, 100, 100, 114, 101, 115, 115>>,
      <<87, 105, 110, 69, 120, 101, 99>>,
      <<83, 104, 101, 108, 108, 69, 120, 101, 99, 117, 116, 101>> }

\* the eight suspicious string markers as byte sequences
StringMarkerBytes ==
    { <<104, 116, 116, 112, 58, 47, 47>>,
      <<104, 116, 116, 112, 115, 58, 47, 47>>,
      <<102, 116, 112, 58, 47, 47>>,
      <<92, 120, 48, 48>>,
      <<99, 109, 100, 46, 101, 120, 101>>,
      <<112, 111, 119, 101, 114, 115, 104, 101, 108, 108>>,
      <<98, 97, 115, 101, 54, 52>>,
      <<115, 104, 101, 108, 108, 99, 111, 100, 101>> }

\* marker occurs in s as a contiguous run of bytes
Occurs(marker, s) ==
    \E i \in 1..(Len(s) - Len(marker) + 1) :
        \A j \in 1..Len(marker) : s[i + j - 1] = marker[j]

\* the calls that extracted a whole vector from a readable non-empty file
SectionCalls ==
    {c \in Callers : /\ calls[c].op \in {"scan_file", "extract_features"}
                     /\ calls[c].file.readable
                     /\ calls[c].file.bytes # << >>
                     /\ FullLayout(calls[c].features)}

\* C22: the section heuristics of a non-empty input: the header flag is 1 iff
\* an executable-header marker occurs as a contiguous byte sequence within the
\* first 1000 bytes; the API ratio is the number of the 8 API names occurring
\* as a substring, over 8; the string ratio likewise over its 8 markers; the
\* code ratio is 1 - (bytes in [32, 126]) / length; all four are in [0, 1].
C22_SectionHeuristics ==
    \A c \in SectionCalls :
        LET bytes == calls[c].file.bytes
            sf == SectionOf(calls[c].features)
            found(markers, s) == Cardinality({m \in markers : Occurs(m, s)})
        IN  /\ sf[1] = IF found(HeaderMarkerBytes, Slice(bytes, 0, HeaderWindow)) > 0
                       THEN One ELSE 0
            /\ sf[2] = (found(ApiNameBytes, bytes) * One) \div 8
            /\ sf[3] = (found(StringMarkerBytes, bytes) * One) \div 8
            /\ sf[4] = One - (PrintableBytes(bytes) * One) \div Len(bytes)
            /\ \A i \in 1..4 : 0 <= sf[i] /\ sf[i] <= One

\* C23: in heuristic mode (no trained model) the confidence returned with a
\* malicious or suspicious label is min(score, 0.95) and so never exceeds 0.95;
\* the confidence returned with a benign label is 1 - score and so is at
\* least 0.7.
C23_HeuristicConfidence ==
    ~is_trained =>
        \A c \in Classified :
            LET v == calls[c].features
                score == RuleScore(At(v, HeuristicEntropyIndex),
                                   At(v, HeuristicApiIndex),
                                   At(v, HeuristicCodeIndex))
                confidence == calls[c].confidence
            IN  (\A i \in {HeuristicEntropyIndex, HeuristicApiIndex, HeuristicCodeIndex} :
                     At(v, i) # NaN) =>
                /\ calls[c].label \in {"malicious", "suspicious"} =>
                      /\ confidence = (IF score < 950 THEN score ELSE 950)
                      /\ confidence <= 950
                /\ calls[c].label = "benign" =>
                      /\ confidence = One - score
                      /\ confidence >= 700

\* untrained, predict answered malicious for a score above 0.95 with the
\* confidence capped to 0.95
C23_Witness ==
    /\ ~is_trained
    /\ \E c \in Classified :
         /\ calls[c].op = "predict"
         /\ calls[c].label = "malicious"
         /\ RuleScore(At(calls[c].features, HeuristicEntropyIndex),
                      At(calls[c].features, HeuristicApiIndex),
                      At(calls[c].features, HeuristicCodeIndex)) > 950
         /\ calls[c].confidence = 950

\* the start_scan handlers that have been called and have not answered
StartsInFlight ==
    {r \in Requests : scan_requests[r].op = "start_scan" /\ scan_requests[r].pc # "done"}

\* every start_scan that answered 200 reports completed with a result
C24_SuccessReportsCompleted ==
    \A r \in Requests :
        (scan_requests[r].op = "start_scan" /\ scan_requests[r].response.code = 200) =>
            /\ scan_requests[r].response.status = "completed"
            /\ scan_requests[r].response.detection_result # "None"

\* with no start_scan in flight the record is not left at scanning
C24_NotLeftScanning ==
    StartsInFlight = {} => scans.status # "scanning"

\* once a delete_scan has answered 204 the record is gone for good
C24_NeverRecreated ==
    (\E r \in Requests : /\ scan_requests[r].op = "delete_scan"
                          /\ scan_requests[r].response.code = 204) => scans = Absent

\* C24: under any interleaving of start_scan and delete_scan requests on one
\* scan record, every start_scan that answers successfully reports status
\* completed with a non-null detection_result; once no start_scan is in flight
\* the record is deleted or completed or failed, never left at scanning; and a
\* record removed by delete_scan is not re-created by a start_scan in flight.
C24_StartAndDeleteInterleaved ==
    /\ C24_SuccessReportsCompleted
    /\ C24_NotLeftScanning
    /\ C24_NeverRecreated

\* C25: after any interleaving of signup requests no two user documents share
\* a username or an email, and a signup answered 400 has inserted nothing.
C25_UsernamesAndEmailsUnique ==
    /\ \A u, w \in users :
          u # w => (u.username # w.username /\ u.email # w.email)
    /\ \A r \in Requests :
          signup_requests[r].code = 400 => ~(\E u \in users : u.id = r)

====
